---- MODULE Spec2Model ----
(***************************************************************************)
(* Model of the useGraphQL request hook (src/src/index.tsx) and of its     *)
(* published build (src/lib/index.js).  One hook instance is modelled:     *)
(* its props, the configuration it reads from GraphQLContext, the three    *)
(* useState cells (loading, error, data) and every loadData() invocation   *)
(* with the await point it is suspended at.                                *)
(***************************************************************************)
EXTENDS Integers, Sequences, FiniteSets, TLC

VARIABLES build, phase, props, ctx, loading, error, data, calls, settled, netCalls, sent

vars == <<build, phase, props, ctx, loading, error, data, calls, settled, netCalls, sent>>

(***************************************************************************)
(* Bounds                                                                  *)
(***************************************************************************)
\* number of loadData() invocations (manual and automatic) of one instance
MaxCalls == 2

(***************************************************************************)
(* JavaScript values                                                       *)
(***************************************************************************)
Null == "null"
Undefined == "undefined"
\* an object JSON.stringify cannot encode (a cyclic structure)
Circular == "circular"

\* the condition of `vars ? vars : props.variables`; every object is truthy
Truthy(v) == v \notin {Null, Undefined}

\* the two builds of the hook: the TypeScript source and the compiled lib
Builds == {"src", "lib"}

\* the hook's inputs: a document without variables and a document with them,
\* each with loadOnStart on or off
Operations ==
    { [query |-> "{ping}", variables |-> Undefined],
      [query |-> "query($id:Int){item(id:$id)}", variables |-> "{id:1}"] }

PropsSet ==
    { [query |-> o.query, variables |-> o.variables, loadOnStart |-> b] :
        o \in Operations, b \in BOOLEAN }

\* the argument of a manual trigger: none, an override mapping, or an object
\* JSON.stringify cannot encode
OverrideVariables == {Undefined, "{id:5}", Circular}

\* a headers prop is either missing (undefined) or a mapping
NoHeaders == [defined |-> FALSE, map |-> <<>>]
HeadersOf(m) == [defined |-> TRUE, map |-> m]

\* a context created without a usable default
GraphQLContextUndefined == [endpoint |-> Undefined, headers |-> NoHeaders]

\* createContext default value
GraphQLContext == [endpoint |-> "", headers |-> HeadersOf(<<>>)]

\* the value GraphQLProvider puts in the context
GraphQLProvider(endpoint, headers) == [endpoint |-> endpoint, headers |-> headers]

ProviderHeaders ==
    { NoHeaders,
      HeadersOf("Authorization" :> "X"),
      HeadersOf("Content-Type" :> "text/plain") }

ProviderConfigs == { GraphQLProvider("/graphql", h) : h \in ProviderHeaders }

Configs == {GraphQLContext} \cup ProviderConfigs

\* a merge in the other order, {...h, ...base}: keys of base win
SpreadBaseWins(base, h) ==
    IF h.defined
    THEN [k \in DOMAIN base \cup DOMAIN h.map |->
            IF k \in DOMAIN base THEN base[k] ELSE h.map[k]]
    ELSE base

\* object spread {...base, ...h}: keys of h win, a missing h adds nothing
Spread(base, h) ==
    IF h.defined
    THEN [k \in DOMAIN base \cup DOMAIN h.map |->
            IF k \in DOMAIN h.map THEN h.map[k] ELSE base[k]]
    ELSE base

\* headers option of the fetch call
RequestHeaders(c) == Spread("Content-Type" :> "application/json", c.headers)

\* an override that is never looked at
ParamsDefaultOnly(v, p) == p.variables

\* const params = vars ? vars : props.variables
Params(v, p) == IF Truthy(v) THEN v ELSE p.variables

\* const packet = { query, variables: params }
Packet(v, p) == [query |-> p.query, variables |-> Params(v, p)]

\* JSON.stringify throws on a cyclic value
CanStringify(packet) == packet.variables # Circular

\* JSON.stringify(packet): a member whose value is undefined is left out
Stringify(packet) ==
    IF packet.variables = Undefined
    THEN "query" :> packet.query
    ELSE ("query" :> packet.query) @@ ("variables" :> packet.variables)

\* the fetch(endpoint, {method, headers, body}) call; vars notes the argument
\* of the loadData invocation that made it
Request(v, p, c) ==
    [vars     |-> v,
     endpoint |-> c.endpoint,
     method   |-> "post",
     headers  |-> RequestHeaders(c),
     body     |-> Stringify(Packet(v, p))]

NoRequest ==
    [vars |-> Undefined, endpoint |-> "none", method |-> "none",
     headers |-> <<>>, body |-> <<>>]

(***************************************************************************)
(* Responses of the transport                                              *)
(***************************************************************************)
\* a body is JSON text of an object with the given members, or not JSON
JsonBody(members) == [json |-> TRUE, members |-> members]
Malformed == [json |-> FALSE, members |-> <<>>]

Responses ==
    { [status |-> 200, body |-> JsonBody("data" :> "r1")],
      [status |-> 200, body |-> JsonBody(("data" :> Null) @@ ("errors" :> "e"))],
      [status |-> 500, body |-> JsonBody("data" :> "r2")],
      [status |-> 502, body |-> Malformed] }

NoResponse == [status |-> 0, body |-> Malformed]

\* rs.data of the parsed body
DataField(body) ==
    IF "data" \in DOMAIN body.members THEN body.members["data"] ELSE Undefined

\* captured failures
NetworkError == "TypeError: Failed to fetch"
SyntaxError == "SyntaxError: Unexpected token"
StringifyError == "TypeError: cyclic object value"

(***************************************************************************)
(* loadData invocations                                                    *)
(***************************************************************************)
\* calls: the loadData invocations in the order they started; settled: their
\* indices in the order they returned.
\* pc: "fetch" awaiting fetch, "delay" awaiting the timer, "json" awaiting
\* req.json(), "done" returned.  resp: the response held while the body is
\* read.  promise: state of the promise loadData returned.  outcome: which
\* branch (try or catch) the invocation ended in.
NewCall ==
    [pc |-> "fetch", resp |-> NoResponse, promise |-> "pending", outcome |-> "none"]

\* the try block ran to its end
Succeeded(c) ==
    [c EXCEPT !.pc = "done", !.resp = NoResponse, !.promise = "fulfilled",
              !.outcome = "success"]

\* the failure escapes the async function: its promise rejects
CaughtRethrown(c) ==
    [c EXCEPT !.pc = "done", !.resp = NoResponse, !.promise = "rejected",
              !.outcome = "failure"]

\* catch (error) { setError(error) }: the async function returns normally
Caught(c) ==
    [c EXCEPT !.pc = "done", !.resp = NoResponse, !.promise = "fulfilled",
              !.outcome = "failure"]

InFlight(i) == calls[i].pc # "done"

(***************************************************************************)
(* The Result Record                                                       *)
(***************************************************************************)
Record == [loading |-> loading, error |-> error, data |-> data]

\* useState(false), useState(null), useState(null)
Idle == [loading |-> FALSE, error |-> Null, data |-> Null]

\* a reset that forgets setData(null)
resetKeepsData(r) == [r EXCEPT !.loading = FALSE, !.error = Null]

\* reset: setLoading(false); setError(null); setData(null)
reset(r) == [r EXCEPT !.loading = FALSE, !.error = Null, !.data = Null]

\* the three cells after the setters were called with the fields of r
SetRecord(r) ==
    /\ loading' = r.loading
    /\ error' = r.error
    /\ data' = r.data

Init ==
    /\ build \in Builds
    /\ phase = "rendered"
    /\ props \in PropsSet
    /\ ctx \in Configs
    /\ loading = Idle.loading
    /\ error = Idle.error
    /\ data = Idle.data
    /\ calls = <<>>
    /\ settled = <<>>
    /\ netCalls = 0
    /\ sent = NoRequest

\* a loadData that starts with setError(null)
loadDataClearsError(v, p, c, r) ==
    /\ Len(calls) < MaxCalls
    /\ IF CanStringify(Packet(v, p))
       THEN /\ SetRecord([r EXCEPT !.loading = TRUE, !.error = Null])
            /\ sent' = Request(v, p, c)
            /\ netCalls' = netCalls + 1
            /\ calls' = Append(calls, NewCall)
            /\ UNCHANGED settled
       ELSE /\ SetRecord([r EXCEPT !.loading = TRUE, !.error = StringifyError])
            /\ calls' = Append(calls, Caught(NewCall))
            /\ settled' = Append(settled, Len(calls) + 1)
            /\ UNCHANGED <<sent, netCalls>>

\* loadData(v) called by a render whose props are p and context is c, with
\* r the Result Record at the time of the call: everything up to the first
\* await.  setLoading(true) comes before the fetch arguments are evaluated,
\* so a JSON.stringify that throws is caught after loading was set.
loadData(v, p, c, r) ==
    /\ Len(calls) < MaxCalls
    /\ IF CanStringify(Packet(v, p))
       THEN /\ SetRecord([r EXCEPT !.loading = TRUE])
            /\ sent' = Request(v, p, c)
            /\ netCalls' = netCalls + 1
            /\ calls' = Append(calls, NewCall)
            /\ UNCHANGED settled
       ELSE /\ SetRecord([r EXCEPT !.loading = TRUE, !.error = StringifyError])
            /\ calls' = Append(calls, Caught(NewCall))
            /\ settled' = Append(settled, Len(calls) + 1)
            /\ UNCHANGED <<sent, netCalls>>

\* manual call of the returned trigger function
Trigger(v) ==
    /\ phase = "live"
    /\ loadData(v, props, ctx, Record)
    /\ UNCHANGED <<build, phase, props, ctx>>

\* manual call of the returned reset function
Reset ==
    /\ phase = "live"
    /\ SetRecord(reset(Record))
    /\ UNCHANGED <<build, phase, props, ctx, calls, settled, netCalls, sent>>

\* the condition of the effect body: `if (props.loadOnStart)` in the source,
\* `if (props.variables)` in the lib build
EffectLoads(b, p) == IF b = "src" THEN p.loadOnStart ELSE Truthy(p.variables)

\* the dependency list: [props.loadOnStart] in the source, [] in the lib build
DepsChanged(b, old, new) ==
    IF b = "src" THEN old.loadOnStart # new.loadOnStart ELSE FALSE

\* activation: the effect runs after the first render is committed
Mount ==
    /\ phase = "rendered"
    /\ phase' = "live"
    /\ IF EffectLoads(build, props)
       THEN loadData(Undefined, props, ctx, Record)
       ELSE UNCHANGED <<loading, error, data, calls, settled, netCalls, sent>>
    /\ UNCHANGED <<build, props, ctx>>

\* a later render with new props p; when a dependency changed the cleanup of
\* the previous effect (reset) runs and then the new effect, whose loadData
\* closes over the new props
Rerender(p) ==
    /\ phase = "live"
    /\ p # props
    /\ props' = p
    /\ IF DepsChanged(build, props, p)
       THEN IF EffectLoads(build, p)
            THEN loadData(Undefined, p, ctx, reset(Record))
            ELSE /\ SetRecord(reset(Record))
                 /\ UNCHANGED <<calls, settled, netCalls, sent>>
       ELSE UNCHANGED <<loading, error, data, calls, settled, netCalls, sent>>
    /\ UNCHANGED <<build, phase, ctx>>

\* the enclosing GraphQLProvider renders with other props: useContext hands
\* the hook the new value, no dependency of the effect changes
ProviderRerender(c) ==
    /\ phase = "live"
    /\ ctx \in ProviderConfigs
    /\ c # ctx
    /\ ctx' = c
    /\ UNCHANGED <<build, phase, props, loading, error, data, calls, settled, netCalls, sent>>

\* a cleanup that also aborts the requests in flight
UnmountAborting ==
    /\ phase = "live"
    /\ phase' = "unmounted"
    /\ SetRecord(reset(Record))
    /\ calls' = [i \in DOMAIN calls |->
                    IF InFlight(i) THEN Caught(calls[i]) ELSE calls[i]]
    /\ UNCHANGED <<build, props, ctx, settled, netCalls, sent>>

\* deactivation: the cleanup `() => reset()` runs
Unmount ==
    /\ phase = "live"
    /\ phase' = "unmounted"
    /\ SetRecord(reset(Record))
    /\ UNCHANGED <<build, props, ctx, calls, settled, netCalls, sent>>

\* `await fetch(...)` resolves with response r; the source then waits for a
\* 3000 ms timer, the lib build goes on to req.json()
FetchResolve(i, r) ==
    /\ calls[i].pc = "fetch"
    /\ calls' = [calls EXCEPT ![i].pc = IF build = "src" THEN "delay" ELSE "json",
                              ![i].resp = r]
    /\ UNCHANGED <<build, phase, props, ctx, loading, error, data, settled, netCalls, sent>>

\* a catch block that issues the request once more
FetchRejectRetries(i) ==
    /\ calls[i].pc = "fetch"
    /\ netCalls' = netCalls + 1
    /\ UNCHANGED <<build, phase, props, ctx, loading, error, data, calls, settled, sent>>

\* a catch block that also calls setLoading(false)
FetchRejectClearsLoading(i) ==
    /\ calls[i].pc = "fetch"
    /\ SetRecord([Record EXCEPT !.error = NetworkError, !.loading = FALSE])
    /\ calls' = [calls EXCEPT ![i] = Caught(@)]
    /\ settled' = Append(settled, i)
    /\ UNCHANGED <<build, phase, props, ctx, netCalls, sent>>

\* `await fetch(...)` rejects: catch, setError
FetchReject(i) ==
    /\ calls[i].pc = "fetch"
    /\ SetRecord([Record EXCEPT !.error = NetworkError])
    /\ calls' = [calls EXCEPT ![i] = Caught(@)]
    /\ settled' = Append(settled, i)
    /\ UNCHANGED <<build, phase, props, ctx, netCalls, sent>>

\* the setTimeout of 3000 ms fires; req.json() is started
TimerFires(i) ==
    /\ calls[i].pc = "delay"
    /\ calls' = [calls EXCEPT ![i].pc = "json"]
    /\ UNCHANGED <<build, phase, props, ctx, loading, error, data, settled, netCalls, sent>>

\* a body reader that throws when the status is not 2xx
ReadBodyChecksStatus(i) ==
    /\ calls[i].pc = "json"
    /\ IF calls[i].resp.body.json /\ calls[i].resp.status \in 200..299
       THEN /\ SetRecord([Record EXCEPT !.data = DataField(calls[i].resp.body),
                                        !.loading = FALSE])
            /\ calls' = [calls EXCEPT ![i] = Succeeded(@)]
       ELSE /\ SetRecord([Record EXCEPT !.error = SyntaxError])
            /\ calls' = [calls EXCEPT ![i] = Caught(@)]
    /\ settled' = Append(settled, i)
    /\ UNCHANGED <<build, phase, props, ctx, netCalls, sent>>

\* a success path that throws when the body has an `errors` member
ReadBodyErrorsFail(i) ==
    /\ calls[i].pc = "json"
    /\ IF calls[i].resp.body.json /\ "errors" \notin DOMAIN calls[i].resp.body.members
       THEN /\ SetRecord([Record EXCEPT !.data = DataField(calls[i].resp.body),
                                        !.loading = FALSE])
            /\ calls' = [calls EXCEPT ![i] = Succeeded(@)]
       ELSE /\ SetRecord([Record EXCEPT !.error = SyntaxError])
            /\ calls' = [calls EXCEPT ![i] = Caught(@)]
    /\ settled' = Append(settled, i)
    /\ UNCHANGED <<build, phase, props, ctx, netCalls, sent>>

\* a success path that also calls setError(null)
ReadBodyClearsError(i) ==
    /\ calls[i].pc = "json"
    /\ IF calls[i].resp.body.json
       THEN /\ SetRecord([Record EXCEPT !.data = DataField(calls[i].resp.body),
                                        !.loading = FALSE, !.error = Null])
            /\ calls' = [calls EXCEPT ![i] = Succeeded(@)]
       ELSE /\ SetRecord([Record EXCEPT !.error = SyntaxError])
            /\ calls' = [calls EXCEPT ![i] = Caught(@)]
    /\ settled' = Append(settled, i)
    /\ UNCHANGED <<build, phase, props, ctx, netCalls, sent>>

\* a completion that writes only when no newer invocation has started
ReadBodyLatestOnly(i) ==
    /\ calls[i].pc = "json"
    /\ IF calls[i].resp.body.json
       THEN /\ IF i = Len(calls)
               THEN SetRecord([Record EXCEPT !.data = DataField(calls[i].resp.body),
                                             !.loading = FALSE])
               ELSE UNCHANGED <<loading, error, data>>
            /\ calls' = [calls EXCEPT ![i] = Succeeded(@)]
       ELSE /\ IF i = Len(calls)
               THEN SetRecord([Record EXCEPT !.error = SyntaxError])
               ELSE UNCHANGED <<loading, error, data>>
            /\ calls' = [calls EXCEPT ![i] = Caught(@)]
    /\ settled' = Append(settled, i)
    /\ UNCHANGED <<build, phase, props, ctx, netCalls, sent>>

\* a success path that forgets setLoading(false)
ReadBodyKeepsLoading(i) ==
    /\ calls[i].pc = "json"
    /\ IF calls[i].resp.body.json
       THEN /\ SetRecord([Record EXCEPT !.data = DataField(calls[i].resp.body)])
            /\ calls' = [calls EXCEPT ![i] = Succeeded(@)]
       ELSE /\ SetRecord([Record EXCEPT !.error = SyntaxError])
            /\ calls' = [calls EXCEPT ![i] = Caught(@)]
    /\ settled' = Append(settled, i)
    /\ UNCHANGED <<build, phase, props, ctx, netCalls, sent>>

\* `await req.json()` settles: setData(rs.data); setLoading(false), or the
\* parse error is caught
ReadBody(i) ==
    /\ calls[i].pc = "json"
    /\ IF calls[i].resp.body.json
       THEN /\ SetRecord([Record EXCEPT !.data = DataField(calls[i].resp.body),
                                        !.loading = FALSE])
            /\ calls' = [calls EXCEPT ![i] = Succeeded(@)]
       ELSE /\ SetRecord([Record EXCEPT !.error = SyntaxError])
            /\ calls' = [calls EXCEPT ![i] = Caught(@)]
    /\ settled' = Append(settled, i)
    /\ UNCHANGED <<build, phase, props, ctx, netCalls, sent>>

Next ==
    \/ Mount
    \/ \E v \in OverrideVariables : Trigger(v)
    \/ Reset
    \/ \E p \in PropsSet : Rerender(p)
    \/ \E c \in ProviderConfigs : ProviderRerender(c)
    \/ Unmount
    \/ \E i \in DOMAIN calls, r \in Responses : FetchResolve(i, r)
    \/ \E i \in DOMAIN calls : FetchReject(i)
    \/ \E i \in DOMAIN calls : TimerFires(i)
    \/ \E i \in DOMAIN calls : ReadBody(i)

Spec == Init /\ [][Next]_vars

(***************************************************************************)
(* Steps of one invocation, as seen in a pair of states                    *)
(***************************************************************************)
\* invocation i returns in this step
Completes(i) == InFlight(i) /\ calls'[i].pc = "done"

\* invocation i returns from the end of the try block
CompletesOk(i) == Completes(i) /\ calls'[i].outcome = "success"

\* invocation i returns from the catch block
CompletesFailed(i) == Completes(i) /\ calls'[i].outcome = "failure"

\* what the transport or the body reader threw at invocation i
CapturedFailure(i) == IF calls[i].pc = "fetch" THEN NetworkError ELSE SyntaxError

\* the `data` member of the body invocation i is reading
ResponseData(i) ==
    IF "data" \in DOMAIN calls[i].resp.body.members
    THEN calls[i].resp.body.members["data"]
    ELSE Undefined

AllSettled == \A i \in DOMAIN calls : ~InFlight(i)

(***************************************************************************)
(* C1..C5                                                                  *)
(***************************************************************************)
\* C1: when the only invocation in flight was started on an idle record and
\* nothing else has touched the record since (loading set, data and error
\* still absent), its successful completion leaves loading = false, error
\* absent and data = the `data` member of the parsed response body.
C1_SuccessfulRoundTrip ==
    [][\A i \in DOMAIN calls :
          ( /\ CompletesOk(i)
            /\ Record = [Idle EXCEPT !.loading = TRUE]
            /\ \A j \in DOMAIN calls : j # i => ~InFlight(j) )
          => Record' = [loading |-> FALSE, error |-> Null, data |-> ResponseData(i)]
      ]_vars

\* C1 witness: one invocation, returned with success, the record holds its data
C1_Witness ==
    /\ Len(calls) = 1
    /\ calls[1].outcome = "success"
    /\ Record = [loading |-> FALSE, error |-> Null, data |-> "r1"]

\* C2: a completion that fails at the transport or at reading the body sets
\* error to the captured failure and leaves data and loading as they were.
C2_FailureCapture ==
    [][\A i \in DOMAIN calls :
          CompletesFailed(i)
          => /\ error' = CapturedFailure(i)
             /\ data' = data
             /\ loading' = loading
      ]_vars

\* C2 witness: a failed invocation left its error beside the data of an
\* earlier success, with loading still set and nothing in flight
C2_Witness ==
    /\ Len(calls) = 2
    /\ AllSettled
    /\ calls[1].outcome = "success"
    /\ calls[2].outcome = "failure"
    /\ Record = [loading |-> TRUE, error |-> NetworkError, data |-> "r1"]

\* C3: loading is true exactly while some invocation has started and has not
\* yet returned.
C3_LoadingIffInFlight ==
    loading <=> \E i \in DOMAIN calls : InFlight(i)

\* C4: the promise of an invocation never rejects: it is pending while the
\* invocation is in flight and fulfilled once it has returned, whether the
\* invocation succeeded or failed.
C4_TriggerNeverThrows ==
    \A i \in DOMAIN calls :
        /\ calls[i].promise # "rejected"
        /\ calls[i].promise = "fulfilled" <=> ~InFlight(i)

\* C4 witness: an invocation failed while building the request, another at
\* the transport or the body; both promises are fulfilled
C4_Witness ==
    /\ Len(calls) = 2
    /\ netCalls = 1
    /\ \A i \in DOMAIN calls :
          calls[i].outcome = "failure" /\ calls[i].promise = "fulfilled"
    /\ error # Null

\* C5: reset() applied to the Result Record of any reachable state gives the
\* idle record, and applying it twice gives what applying it once gives.
C5_ResetIdempotent ==
    /\ reset(Record) = Idle
    /\ reset(reset(Record)) = reset(Record)

\* C5 witness: a failure had set error and a later reset cleared it
C5_Witness ==
    /\ Record = Idle
    /\ \E i \in DOMAIN calls : calls[i].outcome = "failure"

(***************************************************************************)
(* C6..C10                                                                 *)
(***************************************************************************)
\* the `variables` member of a request body, undefined when it was left out
BodyVariables(b) == IF "variables" \in DOMAIN b THEN b["variables"] ELSE Undefined

\* the effect of the first render runs in this step
Activates == phase = "rendered" /\ phase' = "live"

\* this step issues one request, made without an override, for the query and
\* the default variables of the render that made it
IssuesDefaultRequest ==
    /\ netCalls' = netCalls + 1
    /\ Len(calls') = Len(calls) + 1
    /\ sent'.vars = Undefined
    /\ sent'.body["query"] = props'.query
    /\ BodyVariables(sent'.body) = props'.variables

\* this step starts no invocation and issues no request
IssuesNothing == netCalls' = netCalls /\ calls' = calls

\* C6: with loadOnStart = true activation issues exactly one request, with
\* the default variables; and a later render that keeps loadOnStart and
\* changes query, variables, endpoint or headers issues no request and
\* leaves the Result Record alone.
C6_AutoTriggerExactlyOnce ==
    [][ /\ (Activates /\ props.loadOnStart) => IssuesDefaultRequest
        /\ ( /\ phase = "live"
             /\ phase' = "live"
             /\ props'.loadOnStart = props.loadOnStart
             /\ (props' # props \/ ctx' # ctx) )
           => (IssuesNothing /\ Record' = Record)
      ]_vars

\* C7: activation invokes trigger() with the default variables when
\* loadOnStart is true and issues no request when loadOnStart is false,
\* whatever query and variables are.
C7_LoadOnStartDecides ==
    [][ Activates =>
          IF props.loadOnStart THEN IssuesDefaultRequest ELSE IssuesNothing
      ]_vars

\* C8: a request made with an override mapping carries that mapping as its
\* variables, a request made without one carries the default variables of
\* the current props, and starting an invocation does not change the props
\* (unless the step is the render that changed loadOnStart).
C8_VariableOverride ==
    [][ netCalls' = netCalls + 1 =>
          /\ sent'.body["query"] = props'.query
          /\ BodyVariables(sent'.body) =
               IF Truthy(sent'.vars) THEN sent'.vars ELSE props'.variables
          /\ props'.loadOnStart = props.loadOnStart => props' = props
      ]_vars

\* C8 witness: a request went out with the override {id:5} while the stored
\* default is still {id:1}
C8_Witness ==
    /\ sent.vars = "{id:5}"
    /\ BodyVariables(sent.body) = "{id:5}"
    /\ props.variables = "{id:1}"

\* C9: when another invocation of the instance exists (older or newer, in
\* flight or returned), a completion still writes the shared record: a
\* success writes its data and clears loading, a failure writes its error.
C9_LastWriterWins ==
    [][\A i \in DOMAIN calls :
          (Completes(i) /\ Len(calls) > 1)
          => IF CompletesOk(i)
             THEN data' = ResponseData(i) /\ loading' = FALSE /\ error' = error
             ELSE error' = CapturedFailure(i)
      ]_vars

\* C9 witness: the newer invocation returned first, the older one last, and
\* the record holds the data the older one wrote
C9_Witness ==
    /\ settled = <<2, 1>>
    /\ calls[1].outcome = "success"
    /\ calls[2].outcome = "success"
    /\ Record = [loading |-> FALSE, error |-> Null, data |-> "r1"]

\* reset() runs in this step: by deactivation, by the cleanup of the effect
\* when loadOnStart changed, or by a manual call that wiped the record
ResetRuns ==
    \/ phase = "live" /\ phase' = "unmounted"
    \/ build = "src" /\ props'.loadOnStart # props.loadOnStart
    \/ /\ phase = "live" /\ phase' = "live"
       /\ props' = props /\ ctx' = ctx
       /\ Len(calls') = Len(calls) /\ settled' = settled
       /\ Record # Idle /\ Record' = Idle

\* C10: a step in which reset() runs leaves every invocation in flight as it
\* was, and an invocation that completes on an idle record writes its
\* outcome over it.
C10_ResetDoesNotCancel ==
    [][\A i \in DOMAIN calls :
          InFlight(i) =>
            /\ ResetRuns => calls'[i] = calls[i]
            /\ (Completes(i) /\ Record = Idle) =>
                 IF CompletesOk(i)
                 THEN data' = ResponseData(i) /\ loading' = FALSE
                 ELSE error' = CapturedFailure(i)
      ]_vars

\* C10 witness: after deactivation reset the record, an invocation that was
\* in flight returned and wrote its data
C10_Witness ==
    /\ phase = "unmounted"
    /\ Record = [loading |-> FALSE, error |-> Null, data |-> "r1"]

(***************************************************************************)
(* C11..C19                                                                *)
(***************************************************************************)
\* the response invocation i holds has a status outside 200..299
NonOkStatus(i) == calls[i].resp.status \notin 200..299

\* C11 (as claimed): a completion after a network failure, after a response
\* with a non-2xx status, or after a body that is not JSON ends in the one
\* failure outcome: error set to the captured failure, data unchanged.
C11_Original ==
    [][\A i \in DOMAIN calls :
          ( /\ Completes(i)
            /\ \/ calls[i].pc = "fetch"
               \/ NonOkStatus(i)
               \/ ~calls[i].resp.body.json )
          => (CompletesFailed(i) /\ error' = CapturedFailure(i) /\ data' = data)
      ]_vars

\* C11 (amended): a completion ends in the failure outcome exactly when the
\* transport rejected or the body is not JSON, whatever the status; the
\* failure outcome is the same in both cases (error set to the captured
\* failure, data unchanged), and a JSON body ends in success with any status.
C11_OneFailureOutcome ==
    [][\A i \in DOMAIN calls :
          Completes(i) =>
            /\ CompletesFailed(i) <=> (calls[i].pc = "fetch" \/ ~calls[i].resp.body.json)
            /\ CompletesFailed(i) => (error' = CapturedFailure(i) /\ data' = data)
            /\ CompletesOk(i) => (data' = ResponseData(i) /\ error' = error)
      ]_vars

\* C11 witness: the record holds the data of the response with status 500
\* and no error
C11_Witness ==
    /\ Record = [loading |-> FALSE, error |-> Null, data |-> "r2"]
    /\ \E i \in DOMAIN calls : calls[i].outcome = "success"

\* C12: a completion on a JSON body with `errors` and a null `data` ends in
\* success: data is set to null, loading to false, error is left as it was.
C12_GraphQLErrorIsSuccess ==
    [][\A i \in DOMAIN calls :
          ( /\ Completes(i)
            /\ calls[i].pc = "json"
            /\ calls[i].resp.body.json
            /\ "errors" \in DOMAIN calls[i].resp.body.members
            /\ ResponseData(i) = Null )
          => (CompletesOk(i) /\ data' = Null /\ loading' = FALSE /\ error' = error)
      ]_vars

\* C12 witness: after a failure, the second invocation returned with success
\* and wrote a null data; the error of the first is still there
C12_Witness ==
    /\ settled = <<1, 2>>
    /\ calls[1].outcome = "failure"
    /\ calls[2].outcome = "success"
    /\ Record = [loading |-> FALSE, error |-> NetworkError, data |-> Null]

\* the invocation started in this step
Started == calls'[Len(calls')]

\* C13 (as claimed): the number of network calls issued equals the number of
\* invocations started.
C13_Original == netCalls = Len(calls)

\* C13 (amended): an invocation issues one network call when it starts,
\* unless JSON.stringify throws on its packet, in which case it issues none
\* and returns at once with the failure; no other step issues a call (no
\* retry).
C13_OneCallPerInvocation ==
    [][ IF Len(calls') = Len(calls) + 1
        THEN netCalls' = netCalls + (IF Started.pc = "done" THEN 0 ELSE 1)
        ELSE netCalls' = netCalls
      ]_vars

\* C13 witness: two invocations, the first succeeded over the network, the
\* second failed at JSON.stringify, and one network call
C13_Witness ==
    /\ Len(calls) = 2
    /\ netCalls = 1
    /\ AllSettled
    /\ calls[1].outcome = "success"
    /\ Record = [loading |-> TRUE, error |-> StringifyError, data |-> "r1"]

\* the keys of the configured headers, none when the prop is missing
ConfiguredKeys(c) == IF c.headers.defined THEN DOMAIN c.headers.map ELSE {}

\* C14: the headers of a request that is issued are Content-Type plus the
\* configured keys; every configured key has its configured value, and
\* Content-Type is "application/json" unless the configuration has that key.
C14_HeaderMergePrecedence ==
    [][ netCalls' = netCalls + 1 =>
          /\ DOMAIN sent'.headers = {"Content-Type"} \cup ConfiguredKeys(ctx')
          /\ \A k \in ConfiguredKeys(ctx') : sent'.headers[k] = ctx'.headers.map[k]
          /\ "Content-Type" \notin ConfiguredKeys(ctx')
               => sent'.headers["Content-Type"] = "application/json"
      ]_vars

\* C14 witness: a request went out with the configured Content-Type in place
\* of the fixed one
C14_Witness ==
    /\ netCalls > 0
    /\ sent.headers = ("Content-Type" :> "text/plain")

\* C15: with no provider the context is {endpoint: "", headers: {}}, and a
\* request that was issued went to the empty endpoint by POST with only the
\* fixed Content-Type header.
C15_DefaultConfiguration ==
    ctx \notin ProviderConfigs =>
        /\ ctx.endpoint = ""
        /\ ctx.headers.defined
        /\ DOMAIN ctx.headers.map = {}
        /\ netCalls > 0 =>
             /\ sent.endpoint = ""
             /\ sent.method = "post"
             /\ sent.headers = ("Content-Type" :> "application/json")

\* C15 witness: with no provider a request was issued and its invocation went
\* on to read the response
C15_Witness ==
    /\ ctx \notin ProviderConfigs
    /\ netCalls = 1
    /\ sent.endpoint = ""
    /\ \E i \in DOMAIN calls : calls[i].pc = "json"

\* C16: a step that starts an invocation, other than the render that changed
\* loadOnStart, sets loading and leaves data as it was; it leaves error as
\* it was when the request is issued and awaited.
C16_StartChangesOnlyLoading ==
    [][ (Len(calls') = Len(calls) + 1 /\ props'.loadOnStart = props.loadOnStart)
        => /\ loading' = TRUE
           /\ data' = data
           /\ Started.pc # "done" => error' = error
      ]_vars

\* C16 witness: the first invocation returned with data; the second started
\* afterwards and is pending with that data still in the record
C16_Witness ==
    /\ Len(calls) = 2
    /\ calls[1].outcome = "success"
    /\ InFlight(2)
    /\ loading
    /\ data = "r1"

\* an invocation started in this step and failed before anything was awaited
FailsAtStart == Len(calls') = Len(calls) + 1 /\ Started.outcome = "failure"

\* C17: error takes a new value only in a step in which an invocation fails;
\* it becomes absent only in a step in which reset() runs; a successful
\* completion and the start of an invocation leave it as it was.
C17_ErrorSticksUntilReset ==
    [][ /\ (error' # error /\ error' # Null)
           => (FailsAtStart \/ \E i \in DOMAIN calls : CompletesFailed(i))
        /\ (error # Null /\ error' = Null) => ResetRuns
        /\ \A i \in DOMAIN calls : CompletesOk(i) => error' = error
        /\ (Len(calls') = Len(calls) + 1 /\ ~FailsAtStart /\ ~ResetRuns)
           => error' = error
      ]_vars

\* C17 witness: the first invocation failed, the second then succeeded:
\* loading is false, data is fresh and the error of the first is still set
C17_Witness ==
    /\ settled = <<1, 2>>
    /\ calls[1].outcome = "failure"
    /\ calls[2].outcome = "success"
    /\ Record = [loading |-> FALSE, error |-> NetworkError, data |-> "r1"]

\* C18: an invocation is suspended only at the transport (awaiting fetch) or
\* at the reading of the body (awaiting req.json()).
C18_SuspendsOnlyAtNetwork ==
    \A i \in DOMAIN calls : InFlight(i) => calls[i].pc \in {"fetch", "json"}

\* C19: a render of a live instance that changes loadOnStart runs reset()
\* and leaves the invocations in flight alone; when the new value is true it
\* then issues one request with the default variables and ends with loading
\* set, data and error absent; when it is false it issues nothing and ends
\* in the idle record.
C19_LoadOnStartToggle ==
    [][ (phase = "live" /\ phase' = "live" /\ props'.loadOnStart # props.loadOnStart)
        => /\ \A i \in DOMAIN calls : calls'[i] = calls[i]
           /\ IF props'.loadOnStart
              THEN IssuesDefaultRequest /\ Record' = [Idle EXCEPT !.loading = TRUE]
              ELSE IssuesNothing /\ Record' = Idle
      ]_vars

====
